---- MODULE Spec2Model ----
(***************************************************************************)
(* The interactive playground of the documentation site                    *)
(* (src/src/components/react/TabbedCodeBlock.tsx, CodePlayground): one     *)
(* playground session with its React state, the three asynchronous         *)
(* handlers initializePlayground, resetPlayground and runCode, and the     *)
(* IndexedDB-backed tables they work on.                                   *)
(*                                                                         *)
(* Scheduling: JavaScript is single threaded.  A handler runs from its     *)
(* invocation to its first await on a storage operation without            *)
(* interruption, and from the settling of that operation to the next one.  *)
(* An await on an already settled promise only yields to the microtask     *)
(* queue, which no other handler invocation can enter, so it is no         *)
(* interleaving point.  Every action below is one such uninterrupted       *)
(* stretch.  A handler invocation reads the state of the latest render.    *)
(*                                                                         *)
(* The second part is the light/dark theme state the islands of a page     *)
(* share (src/src/hooks/useTheme.ts, src/src/utils/theme.ts, ThemeToggle   *)
(* and the theme effects of CodeEditor and CodePlayground): the class of   *)
(* the document, the stored preference, and each consumer's isDark with    *)
(* the broadcast and observer paths that keep it up to date.               *)
(***************************************************************************)
EXTENDS Integers, Sequences, FiniteSets, TLC

VARIABLES
    runnable,        \* the runnable prop
    output,          \* useState output: the fragments of the text shown
    isRunning,       \* useState isRunning
    isResetting,     \* useState isResetting
    isInitializing,  \* useState isInitializing
    db,              \* useState db: 0 is null, otherwise the handle
    isInitialized,   \* useState isInitialized
    tables,          \* the stored records of 'playground-demo', per table
    nextId,          \* the autoIncrement key generator of each table
    handles,         \* number of handles DexBee.connect has produced
    calls,           \* the handler activations in flight, by slot
    floating,        \* writes the executed code started and did not await
    accepted,        \* number of handler invocations accepted so far
    last             \* what the latest step did (observation only)

vars == <<runnable, output, isRunning, isResetting, isInitializing, db,
          isInitialized, tables, nextId, handles, calls, floating,
          accepted, last>>

reactState == <<output, isRunning, isResetting, isInitializing, db, isInitialized>>
storage == <<tables, nextId>>

\* The theme state shared by the islands of a page (src/src/hooks/useTheme.ts,
\* src/src/utils/theme.ts, ThemeToggle, and the theme effects of CodeEditor
\* and CodePlayground).
VARIABLES
    dark,            \* document.documentElement.classList.contains('dark')
    stored,          \* localStorage 'theme': "none" is null
    osDark,          \* matchMedia('(prefers-color-scheme: dark)').matches
    phase,           \* where each theme consumer is in its life
    isDark,          \* useState isDark of each theme consumer
    deferred,        \* the theme each consumer's requestAnimationFrame callbacks will set
    records,         \* class mutation records queued for each consumer's observer
    setterCalls,     \* setIsDark calls by each useTheme consumer's listener and observer
                     \* since the current task began
    since,           \* the toggles made since the sequence of toggles began
    themeLast        \* what the latest theme step did (observation only)

themeVars == <<dark, stored, osDark, phase, isDark, deferred, records,
               setterCalls, since, themeLast>>

\* Every CodePlayground connects to the one database name 'playground-demo':
\* a second CodePlayground mounted on the page works on the same tables.
VARIABLES
    peer             \* where the second CodePlayground's initializePlayground is

allVars == <<vars, themeVars, peer>>

\* What a step of the theme store leaves alone, and what a step of this
\* playground leaves alone.
playgrounds == <<vars, peer>>
restOfPage == <<themeVars, peer>>

-----------------------------------------------------------------------------
(* Bounds of the model *)

MaxCalls == 2
MaxAccepted == 3
MaxFloating == 1
MaxToggles == 2

-----------------------------------------------------------------------------
(* The schema and the sample dataset *)

ORDERS == 1
USERS == 2
PRODUCTS == 3

\* The order in which clearSampleData and insertSampleData visit the tables.
TableIds == {ORDERS, USERS, PRODUCTS}

NumOrders == 6
NumUsers == 3
NumProducts == 3

\* Number of records insertSampleData gives table t.  A stored record is
\* [id, row]: row k in 1..SeedSize(t) is the k-th literal of the insertMany
\* call, row 0 is a record that is none of the sample records.
SeedSize(t) ==
    CASE t = ORDERS -> NumOrders
      [] t = USERS -> NumUsers
      [] t = PRODUCTS -> NumProducts

\* email_idx of users is unique: true; the other indexes are not.
HasUniqueIndex(t) == t = USERS

Ids(S) == {r.id : r \in S}

RECURSIVE SortedSeq(_)
SortedSeq(S) ==
    IF S = {} THEN <<>>
    ELSE LET m == CHOOSE x \in S : \A y \in S : x <= y
         IN <<m>> \o SortedSeq(S \ {m})

\* table.all(): the records in primary-key order (here, their ids).
All(t) == SortedSeq(Ids(tables[t]))

\* The status of the k-th order literal of insertSampleData; the order the
\* source texts of Programs insert (row 0) has status 'completed' too.
OrderStatus(row) ==
    CASE row \in {0, 1, 2, 4, 5} -> "completed"
      [] row = 3 -> "pending"
      [] row = 6 -> "cancelled"

\* table.where(eq('status', st)).count() on the records S.
CountWhere(S, st) == Cardinality({r \in S : OrderStatus(r.row) = st})

\* table.delete(id): removes the record with that key, if there is one.
DeleteFrom(tb, t, id) == [tb EXCEPT ![t] = {r \in tb[t] : r.id # id}]

\* table.insertMany(sample literals of t): the keys come from the key generator.
SeedRecords(t, first) == {[id |-> first + k - 1, row |-> k] : k \in 1..SeedSize(t)}

\* insertMany on users violates email_idx when a record with one of the
\* sample e-mail addresses is already stored.
UniqueViolation(t) == HasUniqueIndex(t) /\ \E r \in tables[t] : r.row # 0

\* The contents insertSampleData produces, whatever the keys.
HoldsSampleData(t) ==
    /\ Cardinality(tables[t]) = SeedSize(t)
    /\ {r.row : r \in tables[t]} = 1..SeedSize(t)

AllHoldSampleData == \A t \in TableIds : HoldsSampleData(t)

-----------------------------------------------------------------------------
(* Values, errors and texts *)

ErrorOf(m) == [type |-> "Error", message |-> m]
StringOf(s) == [type |-> "string", s |-> s]
PlainObject == [type |-> "object"]
NullProtoObject == [type |-> "nullproto"]
NumberOf(n) == [type |-> "number", n |-> n]

ConnectError == ErrorOf("connect failed")
StorageError == ErrorOf("storage error")
ConstraintError == ErrorOf("ConstraintError")
SyntaxError == ErrorOf("Unexpected token")

\* A text is the sequence of its fragments.
\* String(v): [ok, s]; ok is FALSE when the conversion itself throws a
\* TypeError (an object without toString and valueOf, Object.create(null)).
JsString(v) ==
    CASE v.type = "string" -> [ok |-> TRUE, s |-> <<v.s>>]
      [] v.type = "number" -> [ok |-> TRUE, s |-> <<ToString(v.n)>>]
      [] v.type = "Error" -> [ok |-> TRUE, s |-> <<"Error: ", v.message>>]
      [] v.type = "object" -> [ok |-> TRUE, s |-> <<"[object Object]">>]
      [] v.type = "nullproto" -> [ok |-> FALSE, s |-> <<>>]

\* error instanceof Error ? error.message : String(error)
ErrorText(v) ==
    IF v.type = "Error" THEN [ok |-> TRUE, s |-> <<v.message>>] ELSE JsString(v)

OutEmpty == <<>>
OutInitStart == <<"Initializing playground database...">>
OutInitReady == <<"Playground ready! Sample data loaded. Try running the query above.">>
OutInitFailed(m) == <<"Failed to initialize database: ">> \o m
OutResetStart == <<"Resetting playground database...">>
OutResetDone == <<"Playground database reset successfully! Fresh sample data loaded.">>
OutResetFailed(m) == <<"Error resetting playground: ">> \o m
OutRunning == <<"Running...">>
OutNoOutput == <<"Code executed successfully (no output)">>
OutRunError(m) == <<"Error: ">> \o m

-----------------------------------------------------------------------------
(* Handler activations *)

Idle == [op |-> "idle"]

\* The second CodePlayground before its Initialize button is clicked, and
\* after its initializePlayground has returned.
PeerIdle == [op |-> "idle"]
PeerDone(ok) == [op |-> "done", ok |-> ok]
Slots == 1..MaxCalls
FreeSlots == {s \in Slots : calls[s] = Idle}
HasFreeSlot == FreeSlots # {}
FreeSlot == CHOOSE s \in FreeSlots : \A u \in FreeSlots : s <= u

Active(o) == {s \in Slots : calls[s].op = o}

\* An activation of initializePlayground or resetPlayground: pc is the
\* storage operation it awaits, t the table, todo the keys clearSampleData
\* still has to delete from its all() result, h the handle it works on.
ProvCall(o, pc, t, todo, h, cf) ==
    [op |-> o, pc |-> pc, t |-> t, todo |-> todo, h |-> h, clearFailed |-> cf]

SetCall(s, v) == [calls EXCEPT ![s] = v]

\* What the latest step was; read by the properties only.
NoEvent == [ev |-> "none"]
Rejected(o) == [ev |-> "rejected", op |-> o]
Accepted(o) == [ev |-> "accepted", op |-> o]
Stepped(o) == [ev |-> "step", op |-> o]
NoError == [type |-> "none"]
\* ok: the handler took its success path; threw: its promise rejected;
\* clean: none of its storage operations failed; err: what its catch
\* block caught.
Finished(o, ok, threw, clean, err) ==
    [ev |-> "finished", op |-> o, ok |-> ok, threw |-> threw, clean |-> clean,
     err |-> err]
\* The same for runCode, with the source text that was run.
RunFinished(p, ok, threw, clean, err) ==
    [ev |-> "finished", op |-> "run", ok |-> ok, threw |-> threw, clean |-> clean,
     err |-> err, prog |-> p]

-----------------------------------------------------------------------------
(* initializePlayground and resetPlayground *)

\* initializePlayground guarding on the handle alone.
InitRejectsOnHandleOnly == db # 0

\* if (isInitializing || db) return
InitRejects == isInitializing \/ db # 0

\* if (!db || isResetting || !isInitialized) return
ResetRejects == db = 0 \/ isResetting \/ ~isInitialized

\* clearSampleData leaving out the products table.
AfterClearOfWithoutProducts(t) ==
    IF t < USERS THEN [pc |-> "all", t |-> t + 1]
    ELSE [pc |-> "insert", t |-> ORDERS]

\* clearSampleData after the all() result of table t is used up: the next
\* table's all(), and after products the first insertMany of insertSampleData.
AfterClearOf(t) ==
    IF t < PRODUCTS THEN [pc |-> "all", t |-> t + 1]
    ELSE [pc |-> "insert", t |-> ORDERS]

\* clearSampleData starting over after an error.
AfterClearErrorRetries == [pc |-> "all", t |-> ORDERS]

\* The catch of clearSampleData: console.warn, and clearSampleData returns
\* normally, so its caller goes on to insertSampleData.
AfterClearError == [pc |-> "insert", t |-> ORDERS]

\* One invocation of initializePlayground.
InitializePlayground ==
    IF InitRejects
    THEN /\ last' = Rejected("init")
         /\ UNCHANGED <<runnable, reactState, storage, handles, calls, floating, accepted>>
    ELSE /\ accepted < MaxAccepted
         /\ HasFreeSlot
         /\ isInitializing' = TRUE
         /\ output' = OutInitStart
         /\ calls' = SetCall(FreeSlot, ProvCall("init", "connect", ORDERS, <<>>, 0, FALSE))
         /\ accepted' = accepted + 1
         /\ last' = Accepted("init")
         /\ UNCHANGED <<runnable, isRunning, isResetting, db, isInitialized,
                        storage, handles, floating>>

\* One invocation of resetPlayground: up to the all() of clearSampleData(db).
ResetPlayground ==
    IF ResetRejects
    THEN /\ last' = Rejected("reset")
         /\ UNCHANGED <<runnable, reactState, storage, handles, calls, floating, accepted>>
    ELSE /\ accepted < MaxAccepted
         /\ HasFreeSlot
         /\ isResetting' = TRUE
         /\ output' = OutResetStart
         /\ calls' = SetCall(FreeSlot, ProvCall("reset", "all", ORDERS, <<>>, db, FALSE))
         /\ accepted' = accepted + 1
         /\ last' = Accepted("reset")
         /\ UNCHANGED <<runnable, isRunning, isInitializing, db, isInitialized,
                        storage, handles, floating>>

IsProv(s) == calls[s].op \in {"init", "reset"}

\* The try block of initializePlayground storing the handle without
\* setIsInitialized(true).
ProvSucceedsHandleOnly(s) ==
    LET k == calls[s] IN
    /\ calls' = SetCall(s, Idle)
    /\ last' = Finished(k.op, TRUE, FALSE, ~k.clearFailed, NoError)
    /\ IF k.op = "init"
       THEN /\ db' = k.h
            /\ output' = OutInitReady
            /\ isInitializing' = FALSE
            /\ UNCHANGED <<isRunning, isResetting, isInitialized>>
       ELSE /\ output' = OutResetDone
            /\ isResetting' = FALSE
            /\ UNCHANGED <<isRunning, isInitializing, db, isInitialized>>

\* The try block ran to its end, then finally.
ProvSucceeds(s) ==
    LET k == calls[s] IN
    /\ calls' = SetCall(s, Idle)
    /\ last' = Finished(k.op, TRUE, FALSE, ~k.clearFailed, NoError)
    /\ IF k.op = "init"
       THEN /\ db' = k.h
            /\ isInitialized' = TRUE
            /\ output' = OutInitReady
            /\ isInitializing' = FALSE
            /\ UNCHANGED <<isRunning, isResetting>>
       ELSE /\ output' = OutResetDone
            /\ isResetting' = FALSE
            /\ UNCHANGED <<isRunning, isInitializing, db, isInitialized>>

\* The catch block with the error e, without the finally block.
ProvFailsWithoutFinally(s, e) ==
    LET k == calls[s] IN
    /\ calls' = SetCall(s, Idle)
    /\ last' = Finished(k.op, FALSE, FALSE, FALSE, e)
    /\ output' = IF k.op = "init" THEN OutInitFailed(ErrorText(e).s)
                 ELSE OutResetFailed(ErrorText(e).s)
    /\ UNCHANGED <<isRunning, isResetting, isInitializing, db, isInitialized>>

\* The catch block with the error e, then finally, a failed reset giving up
\* the handle.
ProvFailsDroppingHandle(s, e) ==
    LET k == calls[s] IN
    /\ calls' = SetCall(s, Idle)
    /\ last' = Finished(k.op, FALSE, FALSE, FALSE, e)
    /\ IF k.op = "init"
       THEN /\ output' = OutInitFailed(ErrorText(e).s)
            /\ isInitializing' = FALSE
            /\ UNCHANGED <<isRunning, isResetting, db, isInitialized>>
       ELSE /\ output' = OutResetFailed(ErrorText(e).s)
            /\ isResetting' = FALSE
            /\ db' = 0
            /\ isInitialized' = FALSE
            /\ UNCHANGED <<isRunning, isInitializing>>

\* The catch block with the error e, then finally.
ProvFails(s, e) ==
    LET k == calls[s] IN
    /\ calls' = SetCall(s, Idle)
    /\ last' = Finished(k.op, FALSE, FALSE, FALSE, e)
    /\ IF k.op = "init"
       THEN /\ output' = OutInitFailed(ErrorText(e).s)
            /\ isInitializing' = FALSE
            /\ UNCHANGED <<isRunning, isResetting, db, isInitialized>>
       ELSE /\ output' = OutResetFailed(ErrorText(e).s)
            /\ isResetting' = FALSE
            /\ UNCHANGED <<isRunning, isInitializing, db, isInitialized>>

\* DexBee.connect resolves: the handle, then clearSampleData up to orders.all().
ConnectResolves(s) ==
    /\ calls[s].op = "init" /\ calls[s].pc = "connect"
    /\ handles' = handles + 1
    /\ calls' = SetCall(s, ProvCall("init", "all", ORDERS, <<>>, handles + 1, FALSE))
    /\ last' = Stepped("init")
    /\ UNCHANGED <<runnable, reactState, storage, floating, accepted>>

\* DexBee.connect rejects.
ConnectRejects(s) ==
    /\ calls[s].op = "init" /\ calls[s].pc = "connect"
    /\ ProvFails(s, ConnectError)
    /\ UNCHANGED <<runnable, storage, handles, floating, accepted>>

\* The position after the all() result of the current table is used up, or
\* the first delete of a fresh all() result.
ClearContinues(k, todo) ==
    IF todo # <<>>
    THEN ProvCall(k.op, "delete", k.t, todo, k.h, k.clearFailed)
    ELSE LET n == AfterClearOf(k.t)
         IN ProvCall(k.op, n.pc, n.t, <<>>, k.h, k.clearFailed)

\* table.all() of clearSampleData resolves.
ClearAllResolves(s) ==
    /\ IsProv(s) /\ calls[s].pc = "all"
    /\ calls' = SetCall(s, ClearContinues(calls[s], All(calls[s].t)))
    /\ last' = Stepped(calls[s].op)
    /\ UNCHANGED <<runnable, reactState, storage, handles, floating, accepted>>

\* table.delete(record.id) of clearSampleData resolves.
ClearDeleteResolves(s) ==
    /\ IsProv(s) /\ calls[s].pc = "delete"
    /\ tables' = DeleteFrom(tables, calls[s].t, Head(calls[s].todo))
    /\ calls' = SetCall(s, ClearContinues(calls[s], Tail(calls[s].todo)))
    /\ last' = Stepped(calls[s].op)
    /\ UNCHANGED <<runnable, reactState, nextId, handles, floating, accepted>>

\* An all() or a delete of clearSampleData rejects.
ClearRejects(s) ==
    /\ IsProv(s) /\ calls[s].pc \in {"all", "delete"}
    /\ calls' = SetCall(s, ProvCall(calls[s].op, AfterClearError.pc, AfterClearError.t,
                                    <<>>, calls[s].h, TRUE))
    /\ last' = Stepped(calls[s].op)
    /\ UNCHANGED <<runnable, reactState, storage, handles, floating, accepted>>

\* table.insertMany of insertSampleData resolves (one storage operation: all
\* of its records or none); after products the handler completes.
SeedInsertResolves(s) ==
    LET k == calls[s] IN
    /\ IsProv(s) /\ k.pc = "insert"
    /\ ~UniqueViolation(k.t)
    /\ tables' = [tables EXCEPT ![k.t] = @ \cup SeedRecords(k.t, nextId[k.t])]
    /\ nextId' = [nextId EXCEPT ![k.t] = @ + SeedSize(k.t)]
    /\ IF k.t < PRODUCTS
       THEN /\ calls' = SetCall(s, ProvCall(k.op, "insert", k.t + 1, <<>>, k.h, k.clearFailed))
            /\ last' = Stepped(k.op)
            /\ UNCHANGED reactState
       ELSE ProvSucceeds(s)
    /\ UNCHANGED <<runnable, handles, floating, accepted>>

\* table.insertMany of insertSampleData rejects: the error reaches the catch
\* of the handler.
SeedInsertRejects(s) ==
    LET k == calls[s] IN
    /\ IsProv(s) /\ k.pc = "insert"
    /\ ProvFails(s, IF UniqueViolation(k.t) THEN ConstraintError ELSE StorageError)
    /\ UNCHANGED <<runnable, storage, handles, floating, accepted>>

-----------------------------------------------------------------------------
(* The code in the editor and runCode *)

Log(level, v) == [k |-> "log", level |-> level, v |-> v]
\* db.table(t).insert({...}) of a record that is none of the sample records,
\* awaited or not.
Insert(t, awaited) == [k |-> "insert", t |-> t, awaited |-> awaited]
\* await db.table(t).delete(id)
Delete(t, id) == [k |-> "delete", t |-> t, id |-> id, awaited |-> TRUE]
Throw(v) == [k |-> "throw", v |-> v]
\* console.log(await db.table(t).where(eq('status', st)).count())
Count(t, st) == [k |-> "count", t |-> t, status |-> st, awaited |-> TRUE]

Source(parses, body) == [parses |-> parses, body |-> body]

\* The source texts the editor may hold when Run is invoked.
Programs == <<
    Source(TRUE, <<>>),
    Source(TRUE, <<Log("log", StringOf("a"))>>),
    Source(TRUE, <<Insert(ORDERS, TRUE), Log("log", StringOf("a"))>>),
    Source(TRUE, <<Insert(ORDERS, FALSE)>>),
    Source(TRUE, <<Delete(ORDERS, 1)>>),
    Source(TRUE, <<Throw(ErrorOf("boom"))>>),
    Source(TRUE, <<Throw(StringOf("boom"))>>),
    Source(TRUE, <<Throw(NullProtoObject)>>),
    Source(FALSE, <<>>),
    Source(TRUE, <<Throw(PlainObject)>>),
    Source(TRUE, <<Log("error", StringOf("a")), Log("warn", PlainObject)>>),
    Source(TRUE, <<Insert(USERS, TRUE)>>),
    Source(TRUE, <<Log("log", StringOf("a")), Log("warn", StringOf("b")),
                   Log("error", StringOf("c")), Log("log", PlainObject)>>),
    Source(TRUE, <<Count(ORDERS, "completed")>>)
>>

ProgramIds == 1..Len(Programs)

\* One argument as mockConsole.log renders it:
\* typeof arg === 'object' ? JSON.stringify(arg, null, 2) : String(arg)
LogArg(v) ==
    IF v.type \in {"object", "nullproto", "Error"}
    THEN [ok |-> TRUE, s |-> <<"{}">>]
    ELSE JsString(v)

\* mockConsole pushing every line without a level prefix.
LogLineUnprefixed(level, v) ==
    IF level = "log" THEN LogArg(v) ELSE JsString(v)

\* The line a call of mockConsole.log / error / warn pushes.
LogLine(level, v) ==
    CASE level = "log" -> LogArg(v)
      [] level = "error" -> [ok |-> JsString(v).ok, s |-> <<"ERROR: ">> \o JsString(v).s]
      [] level = "warn" -> [ok |-> JsString(v).ok, s |-> <<"WARN: ">> \o JsString(v).s]

\* logs.join('\n')
RECURSIVE Join(_)
Join(lines) ==
    IF lines = <<>> THEN <<>>
    ELSE IF Len(lines) = 1 THEN lines[1]
    ELSE lines[1] \o <<"\n">> \o Join(Tail(lines))

\* A text that is the empty string (falsy).
IsEmptyText(x) == \A i \in 1..Len(x) : x[i] = ""

\* The function built from the code from statement pc on, up to the next awaited
\* storage operation, a throw, or the end of the body.  fl counts the
\* writes started and not awaited.
RECURSIVE Exec(_, _, _, _)
Exec(body, pc, logs, fl) ==
    IF pc > Len(body)
    THEN [st |-> "done", pc |-> pc, logs |-> logs, fl |-> fl, err |-> NoError]
    ELSE LET c == body[pc] IN
         CASE c.k = "log" ->
                IF LogLine(c.level, c.v).ok
                THEN Exec(body, pc + 1, Append(logs, LogLine(c.level, c.v).s), fl)
                ELSE [st |-> "thrown", pc |-> pc, logs |-> logs, fl |-> fl,
                      err |-> ErrorOf("Cannot convert object to primitive value")]
           [] c.k = "throw" ->
                [st |-> "thrown", pc |-> pc, logs |-> logs, fl |-> fl, err |-> c.v]
           [] c.k \in {"insert", "delete", "count"} ->
                IF c.awaited
                THEN [st |-> "await", pc |-> pc, logs |-> logs, fl |-> fl, err |-> NoError]
                ELSE Exec(body, pc + 1, logs, fl + 1)

\* The latest step was the successful end of initializePlayground or
\* resetPlayground, none of whose storage operations failed.
Provisioned ==
    /\ last # NoEvent /\ last.ev = "finished" /\ last.op \in {"init", "reset"}
    /\ last.ok /\ last.clean

\* fresh: runCode was invoked directly after that (observation only).
RunCall(p, pc, logs, h, fresh) ==
    [op |-> "run", prog |-> p, pc |-> pc, logs |-> logs, h |-> h, fresh |-> fresh]

\* runCode guarding on the runnable prop alone.
RunRejectsOnRunnableOnly == ~runnable

\* if (!runnable || !db || !isInitialized) return
RunRejects == ~runnable \/ db = 0 \/ ~isInitialized

\* setOutput(logs.join('\n') || 'Code executed successfully (no output)')
OutputOfLogs(logs) == IF IsEmptyText(Join(logs)) THEN OutNoOutput ELSE Join(logs)

\* The end of runCode once the function built from the code has settled as r: the
\* setOutput of the try block or of the catch block, then finally.  shown is
\* the output at that moment; it stays when the catch block itself throws
\* while it builds its message.
RunSettles(r, shown, clean, p) ==
    /\ isRunning' = FALSE
    /\ IF r.st = "done"
       THEN /\ output' = OutputOfLogs(r.logs)
            /\ last' = RunFinished(p, TRUE, FALSE, clean, NoError)
       ELSE IF ErrorText(r.err).ok
       THEN /\ output' = OutRunError(ErrorText(r.err).s)
            /\ last' = RunFinished(p, FALSE, FALSE, clean, r.err)
       ELSE /\ output' = shown
            /\ last' = RunFinished(p, FALSE, TRUE, clean, r.err)

\* One invocation of runCode with the source text p in the editor.
RunCode ==
    IF RunRejects
    THEN /\ last' = Rejected("run")
         /\ UNCHANGED <<runnable, reactState, storage, handles, calls, floating, accepted>>
    ELSE \E p \in ProgramIds :
         LET r == Exec(Programs[p].body, 1, <<>>, floating) IN
         /\ accepted < MaxAccepted
         /\ HasFreeSlot
         /\ accepted' = accepted + 1
         /\ UNCHANGED <<runnable, isResetting, isInitializing, db, isInitialized,
                        storage, handles>>
         /\ IF ~Programs[p].parses
            THEN \* new Function throws inside the try block
                 /\ RunSettles([st |-> "thrown", err |-> SyntaxError], OutRunning, TRUE, p)
                 /\ UNCHANGED <<calls, floating>>
            ELSE /\ r.fl <= MaxFloating
                 /\ floating' = r.fl
                 /\ IF r.st = "await"
                    THEN /\ isRunning' = TRUE
                         /\ output' = OutRunning
                         /\ calls' = SetCall(FreeSlot, RunCall(p, r.pc, r.logs, db, Provisioned))
                         /\ last' = Accepted("run")
                    ELSE /\ RunSettles(r, OutRunning, TRUE, p)
                         /\ UNCHANGED calls

\* The write of statement c, once the storage has applied it.
ApplyWrite(c) ==
    IF c.k = "insert"
    THEN /\ tables' = [tables EXCEPT ![c.t] = @ \cup {[id |-> nextId[c.t], row |-> 0]}]
         /\ nextId' = [nextId EXCEPT ![c.t] = @ + 1]
    ELSE IF c.k = "delete"
    THEN /\ tables' = DeleteFrom(tables, c.t, c.id)
         /\ UNCHANGED nextId
    ELSE UNCHANGED <<tables, nextId>>

\* The logs once the awaited operation of statement c has resolved: a count
\* is logged as mockConsole.log renders a number.
LogsAfter(c, logs) ==
    IF c.k = "count"
    THEN Append(logs, LogLine("log", NumberOf(CountWhere(tables[c.t], c.status))).s)
    ELSE logs

\* The storage operation the executed code awaits resolves; the code runs
\* on to its next awaited operation or to its end.
RunAwaitResolves(s) ==
    LET k == calls[s]
        body == Programs[k.prog].body
        r == Exec(body, k.pc + 1, LogsAfter(body[k.pc], k.logs), floating)
    IN
    /\ k.op = "run"
    /\ ApplyWrite(body[k.pc])
    /\ r.fl <= MaxFloating
    /\ floating' = r.fl
    /\ IF r.st = "await"
       THEN /\ calls' = SetCall(s, RunCall(k.prog, r.pc, r.logs, k.h, k.fresh))
            /\ last' = Stepped("run")
            /\ UNCHANGED reactState
       ELSE /\ calls' = SetCall(s, Idle)
            /\ RunSettles(r, output, TRUE, k.prog)
            /\ UNCHANGED <<isResetting, isInitializing, db, isInitialized>>
    /\ UNCHANGED <<runnable, handles, accepted>>

\* The storage operation the executed code awaits rejects: the
\* function rejects with the storage error.
RunAwaitRejects(s) ==
    /\ calls[s].op = "run"
    /\ calls' = SetCall(s, Idle)
    /\ RunSettles([st |-> "thrown", err |-> StorageError], output, FALSE, calls[s].prog)
    /\ UNCHANGED <<runnable, isResetting, isInitializing, db, isInitialized,
                   storage, handles, floating, accepted>>

\* A write the executed code did not await is applied by the storage (the
\* source texts of Programs start only inserts into orders without await).
FloatingWriteLands ==
    /\ floating > 0
    /\ floating' = floating - 1
    /\ ApplyWrite(Insert(ORDERS, FALSE))
    /\ last' = Stepped("write")
    /\ UNCHANGED <<runnable, reactState, handles, calls, accepted>>

\* A write the executed code did not await fails; nobody handles the rejection.
FloatingWriteRejects ==
    /\ floating > 0
    /\ floating' = floating - 1
    /\ last' = Stepped("write")
    /\ UNCHANGED <<runnable, reactState, storage, handles, calls, accepted>>

-----------------------------------------------------------------------------
(* The session *)

\* What 'playground-demo' may hold from an earlier page load.
NoRecords == [t \in TableIds |-> {}]
SampleRecords == [t \in TableIds |-> SeedRecords(t, 1)]
PriorContents ==
    { NoRecords,
      SampleRecords,
      [SampleRecords EXCEPT ![PRODUCTS] = @ \cup {[id |-> NumProducts + 1, row |-> 0]}] }

KeyAfter(S) == IF S = {} THEN 1 ELSE 1 + CHOOSE m \in Ids(S) : \A i \in Ids(S) : i <= m

Init ==
    /\ runnable \in BOOLEAN
    /\ output = OutEmpty
    /\ isRunning = FALSE
    /\ isResetting = FALSE
    /\ isInitializing = FALSE
    /\ db = 0
    /\ isInitialized = FALSE
    /\ tables \in PriorContents
    /\ nextId = [t \in TableIds |-> KeyAfter(tables[t])]
    /\ handles = 0
    /\ calls = [s \in Slots |-> Idle]
    /\ floating = 0
    /\ accepted = 0
    /\ last = NoEvent

\* ---- The theme store ----

\* Scheduling of the theme steps.  window.dispatchEvent runs the listeners
\* before it returns, so a broadcast is delivered inside the step that
\* dispatches it.  MutationObserver callbacks are microtasks: they run after
\* the current task and before any other task, so no toggle, mount or
\* animation frame happens while records are queued.  A callback given to
\* requestAnimationFrame runs in a later task, and clicks may come before it.
\* A toggle handler reads the isDark of the latest render.

\* The mounted islands of the page: two components using useTheme(), the
\* ThemeToggle button, a CodeEditor and the playground.
HookA == "useThemeA"
HookB == "useThemeB"
Toggle == "ThemeToggle"
Editor == "CodeEditor"
Playground == "CodePlayground"

Hooks == {HookA, HookB}
Consumers == Hooks \cup {Toggle, Editor, Playground}

\* Consumers whose checkTheme sets isDark in a requestAnimationFrame callback.
Deferring == {Toggle, Editor}

\* Consumers with a 'themeChange' listener; every consumer has an observer.
Listening == Hooks \cup {Toggle, Playground}

NoValue == "none"
ThemeIdle == [op |-> "none"]

Mounted(c) == phase[c] = "mounted"
\* A page on which no effect has subscribed.
NoSubscribers == {}

\* Subscriptions that a cleanup does not end.
SubscribersNeverRemoved == {c \in Consumers : phase[c] \in {"mounted", "cleaned"}}

\* The consumers whose listener and observer are registered.
Subscribers == {c \in Consumers : Mounted(c)}

\* The two theme names exchanged.
ThemeNameSwapped(b) == IF b THEN "light" ELSE "dark"

\* newIsDark ? 'dark' : 'light'
ThemeName(b) == IF b THEN "dark" ELSE "light"

\* A read that gives the stored value although getItem throws.
unsafeGetStoredTheme(readOk) == stored

\* safeGetStoredTheme: null when getItem throws.
safeGetStoredTheme(readOk) == IF readOk THEN stored ELSE NoValue

\* The OS-level preference consulted before the stored one.
ResolveThemeOsFirst(s, os) == IF os THEN "dark" ELSE IF s # NoValue THEN s ELSE "light"

\* storedTheme || (systemPrefersDark ? 'dark' : 'light')
ResolveTheme(s, os) == IF s # NoValue THEN s ELSE ThemeName(os)

\* getInitialTheme without its guard for server-side rendering.
getInitialThemeUnguarded(window, readOk) ==
    ResolveTheme(safeGetStoredTheme(readOk), osDark) = "dark"

\* The calls of safeGetStoredTheme that getInitialTheme makes.
StorageReads(window) == IF window THEN 1 ELSE 0

getInitialTheme(window, readOk) ==
    IF ~window THEN FALSE
    ELSE ResolveTheme(safeGetStoredTheme(readOk), osDark) = "dark"

\* A write that never reaches storage.
StoredNever(theme, writeOk) == stored

\* A write that lands although setItem throws.
StoredAlways(theme, writeOk) == theme

\* safeSetStoredTheme / localStorage.setItem('theme', theme)
StoredAfter(theme, writeOk) == IF writeOk THEN theme ELSE stored

\* A class change that no observer is told of.
RecordsUnobserved(d, observers) == records

\* classList.toggle('dark', d): an attribute mutation only when the class
\* list changes; each observer registered at that time gets one record.
RecordsAfter(d, observers) ==
    [c \in Consumers |->
        IF d # dark /\ c \in observers THEN records[c] + 1 ELSE records[c]]

\* Tasks that do not wait for the observer callbacks.
MicrotasksIgnored == TRUE

\* The microtask queue is empty: a new task may start.
NoMicrotasks == \A c \in Consumers : records[c] = 0

NoCalls == [c \in Hooks |-> 0]


\* A detail whose isDark contradicts its theme.
ThemeEventInverted(d) == [theme |-> ThemeName(d), isDark |-> ~d]

\* detail: { theme: newTheme, isDark: newIsDark }
ThemeEvent(d) == [theme |-> ThemeName(d), isDark |-> d]

\* The 'themeChange' listeners run inside dispatchEvent, after the class has
\* been set to d.  useTheme's handleThemeChange sets isDark to detail.isDark;
\* the playground's sets it to the class it reads; ThemeToggle's defers the
\* class it reads.
IsDarkAfterEvent(d, base) ==
    [c \in Consumers |->
        IF c \in Subscribers /\ c \in Hooks THEN ThemeEvent(d).isDark
        ELSE IF c \in Subscribers /\ c \in Listening \ Deferring THEN d
        ELSE base[c]]

DeferredAfterEvent(d) ==
    [c \in Consumers |->
        IF c \in Subscribers /\ c \in Listening \cap Deferring THEN ThemeName(d) ELSE deferred[c]]

SinceAfterToggle ==
    IF since.n = 0 \/ since.n = MaxToggles
    THEN [n |-> 1, flag |-> dark, seen |-> isDark]
    ELSE [since EXCEPT !.n = @ + 1]

SinceAfterOther == [n |-> 0, flag |-> dark', seen |-> isDark']

SinceAfterDelivery == IF since.n = 0 THEN SinceAfterOther ELSE since

Toggled(how, c, was, d, ok, sent) ==
    [op |-> "toggle", via |-> how, by |-> c, was |-> was, flagWas |-> dark,
     storedWas |-> stored,
     asked |-> d, threw |-> ~ok /\ how # "useTheme", setItems |-> 1,
     persisted |-> ok, classChanges |-> IF d # dark THEN 1 ELSE 0,
     events |-> sent]

\* useState(getInitialTheme): the first render of a useTheme consumer, on
\* the server (no window) or in the browser.
RenderUseTheme(c) ==
    /\ NoMicrotasks
    /\ c \in Hooks
    /\ \E window \in BOOLEAN, readOk \in BOOLEAN :
        /\ \/ phase[c] = "unrendered"
           \/ phase[c] = "server" /\ window
        /\ isDark' = [isDark EXCEPT ![c] = getInitialTheme(window, readOk)]
        /\ phase' = [phase EXCEPT ![c] = IF window THEN "rendered" ELSE "server"]
        /\ themeLast' = [op |-> "render", by |-> c, window |-> window,
                         readOk |-> readOk, osWas |-> osDark,
                         reads |-> StorageReads(window),
                         storedWas |-> stored,
                         result |-> getInitialTheme(window, readOk)]
    /\ setterCalls' = NoCalls
    /\ UNCHANGED <<dark, stored, osDark, deferred, records>>
    /\ since' = SinceAfterOther

\* The effect of useTheme: initializeTheme(), then addEventListener and
\* observer.observe.
MountUseTheme(c) ==
    /\ NoMicrotasks
    /\ c \in Hooks
    /\ phase[c] = "rendered"
    /\ \E readOk \in BOOLEAN :
        LET isDarkTheme == ResolveTheme(safeGetStoredTheme(readOk), osDark) = "dark" IN
        /\ dark' = isDarkTheme
        /\ records' = RecordsAfter(isDarkTheme, Subscribers)
        /\ isDark' = [isDark EXCEPT ![c] = isDarkTheme]
        /\ themeLast' = [op |-> "mount", by |-> c, readOk |-> readOk,
                         storedWas |-> stored, osWas |-> osDark,
                         result |-> isDarkTheme]
    /\ phase' = [phase EXCEPT ![c] = "mounted"]
    /\ setterCalls' = NoCalls
    /\ UNCHANGED <<stored, osDark, deferred>>
    /\ since' = SinceAfterOther

\* The theme effect of ThemeToggle, CodeEditor and CodePlayground:
\* checkTheme(), then the subscriptions.
MountViewer(c) ==
    /\ NoMicrotasks
    /\ c \in Consumers \ Hooks
    /\ phase[c] = "unmounted"
    /\ phase' = [phase EXCEPT ![c] = "mounted"]
    /\ IF c \in Deferring
       THEN deferred' = [deferred EXCEPT ![c] = ThemeName(dark)] /\ UNCHANGED isDark
       ELSE isDark' = [isDark EXCEPT ![c] = dark] /\ UNCHANGED deferred
    /\ themeLast' = [op |-> "mount", by |-> c]
    /\ setterCalls' = NoCalls
    /\ UNCHANGED <<dark, stored, osDark, records>>
    /\ since' = SinceAfterOther

\* useTheme().toggleTheme
useThemeToggleTheme(c) ==
    /\ NoMicrotasks
    /\ c \in Hooks
    /\ Mounted(c)
    /\ \E writeOk \in BOOLEAN :
        LET newIsDark == ~isDark[c] IN
        /\ dark' = newIsDark
        /\ records' = RecordsAfter(newIsDark, Subscribers)
        /\ stored' = StoredAfter(ThemeName(newIsDark), writeOk)
        /\ isDark' = IsDarkAfterEvent(newIsDark, [isDark EXCEPT ![c] = newIsDark])
        /\ deferred' = DeferredAfterEvent(newIsDark)
        /\ setterCalls' = [h \in Hooks |-> IF Mounted(h) THEN 1 ELSE 0]
        /\ themeLast' = Toggled("useTheme", c, isDark[c], newIsDark, writeOk,
                                <<ThemeEvent(newIsDark)>>)
    /\ since' = SinceAfterToggle
    /\ UNCHANGED <<osDark, phase>>

\* A toggle whose setItem is not guarded: when it throws, the class has
\* been toggled and nothing after it runs.
UnguardedToggle(how, c, was, newIsDark, announces) ==
    \E writeOk \in BOOLEAN :
        LET sends == writeOk /\ announces IN
        /\ dark' = newIsDark
        /\ records' = RecordsAfter(newIsDark, Subscribers)
        /\ stored' = StoredAfter(ThemeName(newIsDark), writeOk)
        /\ isDark' = IF sends THEN IsDarkAfterEvent(newIsDark, isDark) ELSE isDark
        /\ deferred' = IF sends THEN DeferredAfterEvent(newIsDark) ELSE deferred
        /\ setterCalls' = [h \in Hooks |-> IF sends /\ Mounted(h) THEN 1 ELSE 0]
        /\ themeLast' = Toggled(how, c, was, newIsDark, writeOk,
                                IF sends THEN <<ThemeEvent(newIsDark)>> ELSE <<>>)
        /\ since' = SinceAfterToggle
        /\ UNCHANGED <<osDark, phase>>

\* ThemeToggle's toggleTheme, from the isDark of its latest render.
ThemeToggleToggleTheme ==
    /\ NoMicrotasks
    /\ Mounted(Toggle)
    /\ UnguardedToggle("ThemeToggle", Toggle, isDark[Toggle], ~isDark[Toggle], TRUE)

\* utils/theme toggleTheme, from the class of the document.
utilsToggleTheme ==
    /\ NoMicrotasks
    /\ \E announces \in BOOLEAN :
        UnguardedToggle(IF announces THEN "utils" ELSE "utilsNoEvent",
                        "script", dark, ~dark, announces)

\* An observer callback that does not look at the class.
ObserverCallbackIdle(c) ==
    /\ records[c] > 0
    /\ records' = [records EXCEPT ![c] = 0]
    /\ UNCHANGED <<dark, stored, osDark, phase, isDark, deferred, setterCalls,
                   since, themeLast>>

\* The MutationObserver callback of one consumer, over its queued records.
ObserverCallback(c) ==
    /\ records[c] > 0
    /\ records' = [records EXCEPT ![c] = 0]
    /\ IF c \in Deferring
       THEN deferred' = [deferred EXCEPT ![c] = ThemeName(dark)] /\ UNCHANGED isDark
       ELSE isDark' = [isDark EXCEPT ![c] = dark] /\ UNCHANGED deferred
    /\ setterCalls' = [h \in Hooks |->
                          IF h = c THEN setterCalls[h] + records[c] ELSE setterCalls[h]]
    /\ UNCHANGED <<dark, stored, osDark, phase, themeLast>>
    /\ since' = SinceAfterDelivery

\* An animation frame: the callbacks requested so far run in order, so each
\* consumer ends with the value its last checkTheme read.
AnimationFrame ==
    /\ NoMicrotasks
    /\ \E c \in Consumers : deferred[c] # NoValue
    /\ isDark' = [c \in Consumers |->
                     IF deferred[c] # NoValue THEN deferred[c] = "dark" ELSE isDark[c]]
    /\ deferred' = [c \in Consumers |-> NoValue]
    /\ UNCHANGED <<dark, stored, osDark, phase, records, setterCalls, themeLast>>
    /\ since' = SinceAfterDelivery

\* The user changes the colour scheme of the operating system.
OsPreferenceChanges ==
    /\ NoMicrotasks
    /\ osDark' = ~osDark
    /\ since' = [n |-> 0, flag |-> dark, seen |-> isDark]
    /\ UNCHANGED <<dark, stored, phase, isDark, deferred, records, setterCalls, themeLast>>

StoredValues == {NoValue, "dark", "light"}

ThemeInit ==
    /\ dark \in BOOLEAN
    /\ stored \in StoredValues
    /\ osDark \in BOOLEAN
    /\ phase = [c \in Consumers |-> IF c \in Hooks THEN "unrendered" ELSE "unmounted"]
    /\ isDark = [c \in Consumers |-> FALSE]
    /\ deferred = [c \in Consumers |-> NoValue]
    /\ records = [c \in Consumers |-> 0]
    /\ setterCalls = NoCalls
    /\ since = [n |-> 0, flag |-> dark, seen |-> isDark]
    /\ themeLast = ThemeIdle

ThemeNext ==
    \/ \E c \in Hooks : RenderUseTheme(c) /\ UNCHANGED playgrounds
    \/ \E c \in Hooks : MountUseTheme(c) /\ UNCHANGED playgrounds
    \/ \E c \in Consumers \ Hooks : MountViewer(c) /\ UNCHANGED playgrounds
    \/ \E c \in Hooks : useThemeToggleTheme(c) /\ UNCHANGED playgrounds
    \/ ThemeToggleToggleTheme /\ UNCHANGED playgrounds
    \/ utilsToggleTheme /\ UNCHANGED playgrounds
    \/ \E c \in Consumers : ObserverCallback(c) /\ UNCHANGED playgrounds
    \/ AnimationFrame /\ UNCHANGED playgrounds
    \/ OsPreferenceChanges /\ UNCHANGED playgrounds

\* The page without a playground session in use.
PlaygroundAtRest == Init /\ ~runnable /\ tables = NoRecords /\ peer = PeerIdle

\* The page whose theme nobody touches.
ThemeAtRest == ThemeInit /\ ~dark /\ stored = NoValue /\ ~osDark

\* The theme store on a page whose playground nobody uses.
ThemePageInit == ThemeInit /\ PlaygroundAtRest

ThemeSpec == ThemePageInit /\ [][ThemeNext]_allVars

\* The propagation of class changes made by scripts: the consumers mount
\* and utils/theme toggleTheme is called, on a page with no stored
\* preference at first and a light OS preference.
ScriptedInit == ThemePageInit /\ stored = NoValue /\ ~osDark

ScriptedNext ==
    \/ \E c \in Hooks : RenderUseTheme(c) /\ UNCHANGED playgrounds
    \/ \E c \in Hooks : MountUseTheme(c) /\ UNCHANGED playgrounds
    \/ \E c \in Consumers \ Hooks : MountViewer(c) /\ UNCHANGED playgrounds
    \/ utilsToggleTheme /\ UNCHANGED playgrounds
    \/ \E c \in Consumers : ObserverCallback(c) /\ UNCHANGED playgrounds
    \/ AnimationFrame /\ UNCHANGED playgrounds

\* Scheduling: the microtask queue is emptied after every task, and a
\* requested animation frame callback is run.
ThemeLiveSpec ==
    /\ ScriptedInit /\ [][ScriptedNext]_allVars
    /\ WF_allVars(\E c \in Consumers : ObserverCallback(c) /\ UNCHANGED playgrounds)
    /\ SF_allVars(AnimationFrame /\ UNCHANGED playgrounds)

StorageSettles ==
    \E s \in Slots :
        \/ ConnectResolves(s)
        \/ ConnectRejects(s)
        \/ ClearAllResolves(s)
        \/ ClearDeleteResolves(s)
        \/ ClearRejects(s)
        \/ SeedInsertResolves(s)
        \/ SeedInsertRejects(s)
        \/ RunAwaitResolves(s)
        \/ RunAwaitRejects(s)

Next ==
    \/ InitializePlayground /\ UNCHANGED restOfPage
    \/ ResetPlayground /\ UNCHANGED restOfPage
    \/ RunCode /\ UNCHANGED restOfPage
    \/ StorageSettles /\ UNCHANGED restOfPage
    \/ FloatingWriteLands /\ UNCHANGED restOfPage
    \/ FloatingWriteRejects /\ UNCHANGED restOfPage

\* The playground session on a page whose theme nobody touches.
PageInit == Init /\ ThemeAtRest /\ peer = PeerIdle

Spec == PageInit /\ [][Next]_allVars

\* The buttons of the rendered component.  'Try it now' is in the overlay
\* shown while !isInitialized, with disabled={isInitializing}; 'Reset DB' and
\* 'Run' are rendered when runnable && isInitialized, both disabled while
\* isResetting or isRunning.
InitButtonRendered == ~isInitialized
InitButtonDisabled == isInitializing
ResetButtonRendered == runnable /\ isInitialized
ResetButtonDisabled == isResetting \/ isRunning
RunButtonRendered == runnable /\ isInitialized

\* The Run button disabled by its own flag only.
RunButtonDisabledWhileRunningOnly == isRunning

\* The Run button never disabled.
RunButtonNeverDisabled == FALSE

RunButtonDisabled == isRunning \/ isResetting

\* A click on a disabled button reaches no handler.
Dropped(o) == [ev |-> "dropped", op |-> o]

ClickDropped(o) ==
    /\ last' = Dropped(o)
    /\ UNCHANGED <<runnable, reactState, storage, handles, calls, floating, accepted>>

\* onClick={initializePlayground}
ClickInitialize ==
    /\ InitButtonRendered
    /\ IF InitButtonDisabled THEN ClickDropped("init") ELSE InitializePlayground

\* onClick={resetPlayground}
ClickReset ==
    /\ ResetButtonRendered
    /\ IF ResetButtonDisabled THEN ClickDropped("reset") ELSE ResetPlayground

\* onClick={runCode}
ClickRun ==
    /\ RunButtonRendered
    /\ IF RunButtonDisabled THEN ClickDropped("run") ELSE RunCode

\* The session when the handlers are invoked by clicks only.
NextByClicks ==
    \/ ClickInitialize /\ UNCHANGED restOfPage
    \/ ClickReset /\ UNCHANGED restOfPage
    \/ ClickRun /\ UNCHANGED restOfPage
    \/ StorageSettles /\ UNCHANGED restOfPage
    \/ FloatingWriteLands /\ UNCHANGED restOfPage
    \/ FloatingWriteRejects /\ UNCHANGED restOfPage

SpecByClicks == PageInit /\ [][NextByClicks]_allVars

-----------------------------------------------------------------------------
(* Two CodePlaygrounds on one page *)

\* The handle DexBee.connect gives the second CodePlayground: its own
\* connection to 'playground-demo', none of the handles of this one.
PeerHandle == 0 - 1

\* A storage step of the second CodePlayground: nothing of this
\* CodePlayground's React state changes.
PeerStep ==
    /\ last' = Stepped("peer")
    /\ UNCHANGED <<runnable, reactState, handles, calls, floating, accepted>>

\* The second CodePlayground's initializePlayground is invoked (once).
PeerInitializePlayground ==
    /\ peer = PeerIdle
    /\ peer' = ProvCall("init", "connect", ORDERS, <<>>, 0, FALSE)
    /\ PeerStep
    /\ UNCHANGED storage

\* Its DexBee.connect('playground-demo', schema) resolves.
PeerConnectResolves ==
    /\ peer.op = "init" /\ peer.pc = "connect"
    /\ peer' = ProvCall("init", "all", ORDERS, <<>>, PeerHandle, FALSE)
    /\ PeerStep
    /\ UNCHANGED storage

\* Its DexBee.connect rejects: catch, finally.
PeerConnectRejects ==
    /\ peer.op = "init" /\ peer.pc = "connect"
    /\ peer' = PeerDone(FALSE)
    /\ PeerStep
    /\ UNCHANGED storage

\* A table.all() of its clearSampleData resolves with the records stored now.
PeerClearAllResolves ==
    /\ peer.op = "init" /\ peer.pc = "all"
    /\ peer' = ClearContinues(peer, All(peer.t))
    /\ PeerStep
    /\ UNCHANGED storage

\* A table.delete(record.id) of its clearSampleData resolves.
PeerClearDeleteResolves ==
    /\ peer.op = "init" /\ peer.pc = "delete"
    /\ tables' = DeleteFrom(tables, peer.t, Head(peer.todo))
    /\ peer' = ClearContinues(peer, Tail(peer.todo))
    /\ PeerStep
    /\ UNCHANGED nextId

\* An all() or a delete of its clearSampleData rejects.
PeerClearRejects ==
    /\ peer.op = "init" /\ peer.pc \in {"all", "delete"}
    /\ peer' = ProvCall("init", AfterClearError.pc, AfterClearError.t, <<>>, peer.h, TRUE)
    /\ PeerStep
    /\ UNCHANGED storage

\* A table.insertMany of its insertSampleData resolves.
PeerSeedInsertResolves ==
    /\ peer.op = "init" /\ peer.pc = "insert"
    /\ ~UniqueViolation(peer.t)
    /\ tables' = [tables EXCEPT ![peer.t] = @ \cup SeedRecords(peer.t, nextId[peer.t])]
    /\ nextId' = [nextId EXCEPT ![peer.t] = @ + SeedSize(peer.t)]
    /\ peer' = IF peer.t < PRODUCTS
               THEN ProvCall("init", "insert", peer.t + 1, <<>>, peer.h, peer.clearFailed)
               ELSE PeerDone(TRUE)
    /\ PeerStep

\* A table.insertMany of its insertSampleData rejects: catch, finally.
PeerSeedInsertRejects ==
    /\ peer.op = "init" /\ peer.pc = "insert"
    /\ peer' = PeerDone(FALSE)
    /\ PeerStep
    /\ UNCHANGED storage

\* The page with both CodePlaygrounds: this one is initialized and reset
\* through its buttons, the second one is initialized once.
NextShared ==
    \/ ClickInitialize /\ UNCHANGED restOfPage
    \/ ClickReset /\ UNCHANGED restOfPage
    \/ (\E s \in Slots : ConnectResolves(s)) /\ UNCHANGED restOfPage
    \/ (\E s \in Slots : ConnectRejects(s)) /\ UNCHANGED restOfPage
    \/ (\E s \in Slots : ClearAllResolves(s)) /\ UNCHANGED restOfPage
    \/ (\E s \in Slots : ClearDeleteResolves(s)) /\ UNCHANGED restOfPage
    \/ (\E s \in Slots : ClearRejects(s)) /\ UNCHANGED restOfPage
    \/ (\E s \in Slots : SeedInsertResolves(s)) /\ UNCHANGED restOfPage
    \/ (\E s \in Slots : SeedInsertRejects(s)) /\ UNCHANGED restOfPage
    \/ PeerInitializePlayground /\ UNCHANGED themeVars
    \/ PeerConnectResolves /\ UNCHANGED themeVars
    \/ PeerConnectRejects /\ UNCHANGED themeVars
    \/ PeerClearAllResolves /\ UNCHANGED themeVars
    \/ PeerClearDeleteResolves /\ UNCHANGED themeVars
    \/ PeerClearRejects /\ UNCHANGED themeVars
    \/ PeerSeedInsertResolves /\ UNCHANGED themeVars
    \/ PeerSeedInsertRejects /\ UNCHANGED themeVars

\* A first visit of a page with two runnable CodePlaygrounds.
SharedInit == PageInit /\ runnable /\ tables = NoRecords

SharedSpec == SharedInit /\ [][NextShared]_allVars

-----------------------------------------------------------------------------
(* Properties *)

\* The session states of the lifecycle, read off the React state.
Uninitialized == db = 0 /\ ~isInitialized /\ ~isInitializing
Ready == db # 0 /\ isInitialized /\ ~isInitializing /\ ~isRunning /\ ~isResetting

FinishedOp(o) == last.ev = "finished" /\ last.op = o

\* C1: over every sequence of run invocations at most one execution
\* is in flight at any time, and an invocation of runCode made
\* while isRunning changes neither the output nor any flag.
C1_RunWhileRunningRejected ==
    /\ [](Cardinality(Active("run")) <= 1)
    /\ [][(isRunning /\ RunCode) => UNCHANGED <<reactState, calls>>]_vars

\* C2: in every state the session reaches by initialize, run and reset
\* invocations made through its buttons, at most one of isInitializing,
\* isRunning and isResetting is true; an invocation that would set a second
\* one is dropped.
BusyFlags ==
    {f \in {"init", "run", "reset"} :
        \/ f = "init" /\ isInitializing
        \/ f = "run" /\ isRunning
        \/ f = "reset" /\ isResetting}

C2_AtMostOneBusyFlag == Cardinality(BusyFlags) <= 1

\* C2 witness: Run was clicked while a reset was clearing, and was dropped.
C2_Witness ==
    /\ last = Dropped("run")
    /\ isResetting
    /\ \E s \in Slots : calls[s].op = "reset" /\ calls[s].pc = "delete"

\* C3: while resetPlayground clears and reseeds, no execution of user code is
\* in flight and no write started by executed code is outstanding, awaited
\* or not: the operations on the handle do not interleave.
C3_OperationsDoNotInterleave ==
    Active("reset") # {} => (Active("run") = {} /\ floating = 0)

\* C4: an invocation of resetPlayground made in any state but Ready starts
\* no reset: it leaves the stored records, the output and all flags as
\* they are.
C4_ResetOnlyFromReady ==
    [][(~Ready /\ ResetPlayground) => UNCHANGED <<reactState, storage, calls>>]_vars

\* C5: an invocation of initializePlayground made while isInitializing or
\* once a handle is stored changes nothing; never two activations of
\* initializePlayground (so never two connects) at once; a stored handle
\* is never replaced.
C5_InitializeOnlyFromUninitialized ==
    /\ [](Cardinality(Active("init")) <= 1)
    /\ [][(~Uninitialized /\ InitializePlayground)
            => UNCHANGED <<reactState, storage, calls, handles>>]_vars
    /\ [][db # 0 => db' = db]_vars

\* C5 witness: a second invocation arrived while the first was awaiting
\* connect, and was rejected.
C5_Witness ==
    /\ last = Rejected("init")
    /\ \E s \in Slots : calls[s].op = "init" /\ calls[s].pc = "connect"

C8_ResetRestoresSampleData ==
    (FinishedOp("reset") /\ last.ok /\ last.clean) => AllHoldSampleData

\* C9: an accepted runCode never rejects into its caller and ends with an
\* output of its own stored and isRunning false.
C9_RunAlwaysEndsWithOutput ==
    FinishedOp("run") =>
        /\ ~last.threw
        /\ ~isRunning
        /\ output # OutRunning

\* C10: when the executed code raised, the output of the run is the line
\* 'Error: ' followed by the message of what was raised, and runCode does
\* not reject.
C10_RaisedErrorBecomesOutput ==
    (FinishedOp("run") /\ ~last.ok) =>
        /\ ~last.threw
        /\ Len(output) = 2
        /\ output[1] = "Error: "
        /\ last.err.type = "Error" => output[2] = last.err.message
        /\ last.err.type = "string" => output[2] = last.err.s

-----------------------------------------------------------------------------
(* Properties of the theme store *)

Settled(c) == Mounted(c) /\ deferred[c] = NoValue /\ records[c] = 0

ToggleDone == themeLast.op = "toggle"

\* C11: after an even number of toggleTheme calls, made through any of the
\* three toggle entry points and at any time relative to pending state
\* updates, the document dark flag and the isDark of every consumer are what
\* they were before the calls.
C11_EvenTogglesRestoreTheme ==
    (since.n = 2 /\ NoMicrotasks) =>
        /\ dark = since.flag
        /\ \A c \in Consumers : Settled(c) => isDark[c] = since.seen[c]

\* Nothing of a theme change is outstanding: no observer callback, no
\* requestAnimationFrame callback (broadcasts are delivered inside the step).
Quiescent == NoMicrotasks /\ \A c \in Consumers : deferred[c] = NoValue

\* C12: at every quiescent point, after any sequence of toggles by any
\* consumer, the isDark of every mounted theme consumer equals the document
\* dark flag.
C12_ConsumersAgreeWithDocument ==
    Quiescent => \A c \in Subscribers : isDark[c] = dark

\* C12 witness: a toggle made without a broadcast has reached a useTheme
\* consumer, the editor and ThemeToggle, all mounted, and all are dark.
C12_Witness ==
    /\ Quiescent
    /\ ToggleDone /\ themeLast.via = "utilsNoEvent" /\ themeLast.flagWas = FALSE
    /\ {HookA, Editor, Toggle} \subseteq Subscribers
    /\ dark /\ \A c \in {HookA, Editor, Toggle} : isDark[c]

ResolvedIsDark == ResolveTheme(stored, osDark) = "dark"

\* C13 as stated: at the observation points after a toggle, whatever toggles
\* came before it and also when its storage write failed, the isDark of
\* every initialized useTheme consumer equals the theme resolved from the
\* stored preference if one is present, else from the OS-level preference.
C13_IsDarkIsResolvedPreference ==
    (ToggleDone /\ NoMicrotasks) =>
        \A c \in Hooks : Mounted(c) => isDark[c] = ResolvedIsDark

\* C13 amended: a useTheme consumer's isDark equals the theme resolved from
\* the preference its initialization could read (no preference when the read
\* throws), else from the OS-level preference; and after a toggle whose
\* storage write succeeded every initialized useTheme consumer's isDark
\* equals the stored preference.
C13_IsDarkIsResolvedWhenStorageWorks ==
    /\ (themeLast.op = "mount" /\ themeLast.by \in Hooks) =>
            /\ themeLast.result =
                   (ResolveTheme(IF themeLast.readOk THEN themeLast.storedWas ELSE NoValue,
                                 themeLast.osWas) = "dark")
            /\ NoMicrotasks => isDark[themeLast.by] = themeLast.result
    /\ (ToggleDone /\ themeLast.persisted /\ NoMicrotasks) =>
            \A c \in Hooks : Mounted(c) => isDark[c] = (stored = "dark")

\* C13 witness: after a toggle by one useTheme consumer whose write
\* succeeded, both consumers are dark as stored although the OS prefers light.
C13_Witness ==
    /\ ToggleDone /\ themeLast.via = "useTheme" /\ themeLast.by = HookA
    /\ themeLast.persisted /\ NoMicrotasks
    /\ Mounted(HookB) /\ isDark[HookA] /\ isDark[HookB]
    /\ stored = "dark" /\ ~osDark

\* C14: with two mounted useTheme consumers both at isDark = false, after
\* either one calls toggleTheme() both have isDark = true once the
\* broadcast has been delivered and the observer callbacks have run.
C14_BothConsumersFollowToggle ==
    (/\ ToggleDone /\ themeLast.via = "useTheme" /\ ~themeLast.was
     /\ \A h \in Hooks : Mounted(h)
     /\ NoMicrotasks) =>
        \A h \in Hooks : isDark[h]

\* C14 witness: useThemeB toggled from false, the observer callbacks have
\* run, and both consumers are dark.
C14_Witness ==
    /\ ToggleDone /\ themeLast.via = "useTheme" /\ themeLast.by = HookB
    /\ ~themeLast.was /\ ~themeLast.flagWas
    /\ \A h \in Hooks : Mounted(h) /\ isDark[h]
    /\ Quiescent /\ dark

\* C15: for one toggle, the listener and the observer of a subscribed useTheme
\* consumer together call its isDark setter at most once.
C15_SetterRaisedOncePerToggle ==
    ToggleDone => \A h \in Hooks : setterCalls[h] <= 1

\* C16: the observer callback for a theme change that a consumer has already
\* received by broadcast leaves the consumer's isDark (or the value it has
\* deferred) as the broadcast set it, and the broadcast carries the value the
\* observer reads, so the two deliveries give the same result in either order.
C16_DuplicateDeliveryIsIdempotent ==
    /\ [](ToggleDone /\ themeLast.events # <<>> => themeLast.events[1].isDark = dark)
    /\ [][\A c \in Listening :
              (ObserverCallback(c) /\ ToggleDone /\ themeLast.events # <<>>) =>
                  isDark'[c] = isDark[c] /\ deferred'[c] = deferred[c]]_allVars

\* C16 witness: a useTheme consumer and the playground have received one
\* toggle to dark by broadcast and by their observers, and are dark.
C16_Witness ==
    /\ ToggleDone /\ themeLast.events # <<>> /\ themeLast.classChanges = 1
    /\ Mounted(HookA) /\ Mounted(Playground) /\ NoMicrotasks
    /\ setterCalls[HookA] = 2
    /\ dark /\ isDark[HookA] /\ isDark[Playground]

ByUseTheme == ToggleDone /\ themeLast.via = "useTheme"

\* What a useTheme().toggleTheme call made at isDark = b leaves behind.
TogglesTo(b) ==
    /\ themeLast.asked = ~b
    /\ dark = ~b
    /\ isDark[themeLast.by] = ~b
    /\ ~themeLast.threw
    /\ themeLast.events =
           <<[theme |-> IF b THEN "light" ELSE "dark", isDark |-> ~b]>>

\* C17 as stated: useTheme().toggleTheme called at isDark = b sets the
\* document dark flag to not-b, stores the name of the new theme, sets the
\* caller's isDark to not-b and dispatches one themeChange event whose
\* detail.theme and detail.isDark both describe not-b.
C17_ToggleAppliesStoresAndBroadcasts ==
    ByUseTheme =>
        /\ TogglesTo(themeLast.was)
        /\ stored = (IF themeLast.was THEN "light" ELSE "dark")

\* C17 amended: the same, with the name of the new theme stored whenever
\* setItem does not throw.
C17_ToggleAppliesAndBroadcasts ==
    ByUseTheme =>
        /\ TogglesTo(themeLast.was)
        /\ themeLast.persisted => stored = (IF themeLast.was THEN "light" ELSE "dark")

\* C17 witness: useThemeA toggled from dark to light and 'light' is stored.
C17_Witness ==
    /\ ByUseTheme /\ themeLast.by = HookA /\ themeLast.was
    /\ themeLast.persisted /\ stored = "light" /\ ~dark /\ ~isDark[HookA]

Delivery == (\E c \in Consumers : ObserverCallback(c)) \/ AnimationFrame

C19_ToggleSurvivesStorageFailure ==
    (ByUseTheme /\ ~themeLast.persisted) =>
        /\ TogglesTo(themeLast.was)
        /\ stored = themeLast.storedWas

\* C19 witness: no preference stored, setItem throws, useThemeA toggled to
\* dark and the other useTheme consumer followed.
C19_Witness ==
    /\ ByUseTheme /\ themeLast.by = HookA /\ ~themeLast.persisted /\ ~themeLast.was
    /\ stored = NoValue /\ dark /\ isDark[HookA]
    /\ Mounted(HookB) /\ isDark[HookB]

RenderDone == themeLast.op = "render"

\* C20: getInitialTheme() without a window returns false for every stored
\* preference and every OS preference, and does not read storage.
C20_NoWindowGivesLight ==
    (RenderDone /\ ~themeLast.window) =>
        /\ ~themeLast.result
        /\ themeLast.reads = 0
        /\ ~isDark[themeLast.by]

\* C20 witness: rendered without a window while 'dark' is stored and the OS
\* prefers dark.
C20_Witness ==
    /\ RenderDone /\ ~themeLast.window
    /\ themeLast.storedWas = "dark" /\ osDark /\ phase[themeLast.by] = "server"
    /\ ~isDark[themeLast.by]

MountDone == themeLast.op = "mount" /\ themeLast.by \in Hooks

\* C21: with a window and readable storage, getInitialTheme() returns true
\* exactly when the stored preference is 'dark', or none is stored and the
\* OS prefers dark: stored preference first, then the OS, then light.
C21_InitialThemeResolutionOrder ==
    (RenderDone /\ themeLast.window /\ themeLast.readOk) =>
        /\ themeLast.result =
               (\/ themeLast.storedWas = "dark"
                \/ themeLast.storedWas = NoValue /\ themeLast.osWas)
        /\ isDark[themeLast.by] = themeLast.result

\* C21 witness: 'light' is stored and the OS prefers dark; the result is
\* false.
C21_Witness ==
    /\ RenderDone /\ themeLast.window /\ themeLast.readOk
    /\ themeLast.storedWas = "light" /\ themeLast.osWas
    /\ ~themeLast.result /\ ~isDark[themeLast.by]

\* C22: when reading the stored preference throws, getInitialTheme() and the
\* initializeTheme of the useTheme effect give the OS-level preference, as
\* if nothing were stored, and initializeTheme applies it to the document.
C22_ReadFailureMeansNoPreference ==
    /\ (RenderDone /\ themeLast.window /\ ~themeLast.readOk) =>
            /\ themeLast.result = themeLast.osWas
            /\ isDark[themeLast.by] = themeLast.osWas
    /\ (MountDone /\ ~themeLast.readOk) =>
            /\ themeLast.result = themeLast.osWas
            /\ dark = themeLast.osWas
            /\ NoMicrotasks => isDark[themeLast.by] = themeLast.osWas

\* C22 witness: 'dark' is stored but cannot be read, the OS prefers light,
\* and the mounted consumer and the document are light.
C22_Witness ==
    /\ MountDone /\ ~themeLast.readOk
    /\ themeLast.storedWas = "dark" /\ ~themeLast.osWas
    /\ ~dark /\ ~isDark[themeLast.by] /\ Mounted(themeLast.by)

\* C23: a change of the document class made without a broadcast (the
\* utils/theme toggleTheme that only toggles the class and writes storage)
\* reaches every mounted consumer through its observer: eventually the
\* isDark of every mounted consumer equals the document dark flag.
C23_SilentChangeIsObserved ==
    (ToggleDone /\ themeLast.via = "utilsNoEvent" /\ themeLast.classChanges = 1)
        ~> (\A c \in Subscribers : isDark[c] = dark)

\* C23 witness: after such a toggle to dark, the editor, a useTheme consumer
\* and ThemeToggle, all mounted before it, are dark.
C23_Witness ==
    /\ ToggleDone /\ themeLast.via = "utilsNoEvent" /\ themeLast.classChanges = 1
    /\ {Editor, HookB, Toggle} \subseteq Subscribers
    /\ dark /\ isDark[Editor] /\ isDark[HookB] /\ isDark[Toggle]


-----------------------------------------------------------------------------
(* Two sessions on one database *)

\* This CodePlayground is Ready and nothing of it is in flight.
ReadyAtRest == isInitialized /\ db # 0 /\ \A s \in Slots : calls[s] = Idle

\* C24: the tables are written by this session's own initialize, reset and
\* run only: no step of the second CodePlayground on the page changes the
\* table contents this session has seeded and reads.
C24_PeerLeavesSeededTablesAlone ==
    [][(ReadyAtRest /\ peer' # peer) => tables' = tables]_allVars

-----------------------------------------------------------------------------
(* runCode and its bindings *)

\* The executions of runCode that have started and not settled.
RunsInFlight == {s \in Slots : calls[s].op = "run"}

\* A step of runCode or of the execution it started.
RunCodeStep ==
    /\ last' # NoEvent
    /\ last'.ev \in {"rejected", "accepted", "step", "finished"}
    /\ last'.op = "run"

\* C25: runCode invoked while the session has no handle starts no
\* execution and changes neither the output nor a flag (nor the storage);
\* every execution that has started was given the handle in db, which is
\* the handle the successful initializePlayground of this session stored.
C25_RunNeedsTheSessionHandle ==
    /\ [][(db = 0 /\ RunCodeStep)
            => (last' = Rejected("run")
                /\ UNCHANGED <<reactState, storage, calls, floating, handles>>)]_allVars
    /\ [](\A s \in RunsInFlight :
             calls[s].h = db /\ db \in 1..handles /\ isInitialized)
    /\ [][db' # db => (db = 0 /\ db' \in 1..handles
                       /\ last' = Finished("init", TRUE, FALSE, last'.clean, NoError))]_allVars

\* runCode was invoked while initializePlayground was in flight and returned
\* at its guard.
C25_Witness ==
    /\ runnable /\ db = 0 /\ isInitializing
    /\ last = Rejected("run")

-----------------------------------------------------------------------------
(* The captured output *)

\* runCode has just taken its success path.
RunSucceeded == last # NoEvent /\ last.ev = "finished" /\ last.op = "run" /\ last.ok

\* The console calls the source text p makes, in the order it makes them.
IsConsoleCall(c) == c.k = "log"

\* The source text p logs nothing but literals (a logged count depends on
\* the stored records).
LogsLiterals(p) == \A i \in 1..Len(Programs[p].body) : Programs[p].body[i].k # "count"
ConsoleCalls(p) == SelectSeq(Programs[p].body, IsConsoleCall)

LevelPrefix(level) ==
    CASE level = "log" -> <<>>
      [] level = "error" -> <<"ERROR: ">>
      [] level = "warn" -> <<"WARN: ">>

\* The argument v as the method for that level renders it.
ArgText(level, v) == IF level = "log" THEN LogArg(v).s ELSE JsString(v).s

\* The lines logged by a completed execution of p, one per console call.
LoggedLines(p) ==
    [i \in 1..Len(ConsoleCalls(p)) |->
        LevelPrefix(ConsoleCalls(p)[i].level)
            \o ArgText(ConsoleCalls(p)[i].level, ConsoleCalls(p)[i].v)]

\* C26 as stated: after a successful run the output is exactly the lines
\* logged through the injected console, in call order across log, error and
\* warn, error lines prefixed 'ERROR: ' and warn lines 'WARN: '.
C26_OutputIsTheLoggedLines ==
    (RunSucceeded /\ LogsLiterals(last.prog)) => output = Join(LoggedLines(last.prog))

\* C26 amended: the same when the joined lines are not the empty text;
\* when nothing was logged (or only empty text) the output is
\* 'Code executed successfully (no output)'.
C26_OutputIsTheLoggedLinesOrPlaceholder ==
    (RunSucceeded /\ LogsLiterals(last.prog)) =>
        output = IF IsEmptyText(Join(LoggedLines(last.prog)))
                 THEN OutNoOutput
                 ELSE Join(LoggedLines(last.prog))

\* A successful run that logged through log, warn and error.
C26_Witness ==
    /\ RunSucceeded
    /\ {ConsoleCalls(last.prog)[i].level : i \in 1..Len(ConsoleCalls(last.prog))}
            = {"log", "warn", "error"}
    /\ output = Join(LoggedLines(last.prog))

\* The lines of p when every method serializes its argument as log does:
\* typeof arg === 'object' ? JSON.stringify(arg, null, 2) : String(arg).
UniformLines(p) ==
    [i \in 1..Len(ConsoleCalls(p)) |->
        LevelPrefix(ConsoleCalls(p)[i].level) \o LogArg(ConsoleCalls(p)[i].v).s]

\* C27: every value passed to log, error or warn is serialized the same
\* way, a primitive stringified as it is and an object or array rendered as
\* indented structured text: the lines of a successful run are the uniform
\* serializations of the logged values.
C27_EveryMethodSerializesAlike ==
    (RunSucceeded /\ LogsLiterals(last.prog) /\ ConsoleCalls(last.prog) # <<>>)
        => output = Join(UniformLines(last.prog))

-----------------------------------------------------------------------------
(* An execution that does not settle *)

\* The step in which the operation an execution awaits settles.
AwaitSettles == last' # NoEvent /\ last'.op = "run" /\ last'.ev \in {"step", "finished"}

\* C28: while the execution runCode started has not settled, isRunning is
\* true; an execution in flight is moved on only by the settling of what
\* it awaits, and isRunning returns to false only in the step that ends
\* runCode: there is no timeout and no cancellation.
C28_HungRunStaysRunning ==
    /\ [](RunsInFlight # {} => isRunning)
    /\ [][\A s \in RunsInFlight : calls'[s] # calls[s] => AwaitSettles]_allVars
    /\ [][(isRunning /\ ~isRunning')
            => (last'.ev = "finished" /\ last'.op = "run")]_allVars

\* An execution is in flight and a click on the disabled Run button was
\* dropped meanwhile.
C28_Witness ==
    /\ RunsInFlight # {}
    /\ isRunning
    /\ last = Dropped("run")

-----------------------------------------------------------------------------
(* No automatic retry *)

\* How far a call of initializePlayground or resetPlayground has come:
\* connect, then per table all() and its deletes, then the three insertMany.
Stage(k) ==
    CASE k.pc = "connect" -> 0
      [] k.pc = "all" -> 2 * k.t - 1
      [] k.pc = "delete" -> 2 * k.t
      [] k.pc = "insert" -> 2 * PRODUCTS + k.t

\* The call k goes on as k2: a later stage, or the next delete of the same
\* all() result.
Advances(k, k2) ==
    /\ k2.op = k.op
    /\ \/ Stage(k2) > Stage(k)
       \/ /\ k.pc = "delete" /\ k2.pc = "delete" /\ k2.t = k.t
          /\ Len(k2.todo) < Len(k.todo)

\* The handler o has just ended in its catch block.
Failed(o) == last # NoEvent /\ last.ev = "finished" /\ last.op = o /\ ~last.ok

-----------------------------------------------------------------------------
(* Counting the completed orders *)

\* The call k is a run at the count of the completed orders.
CountsCompleted(k) ==
    /\ k.op = "run"
    /\ Programs[k.prog].body[k.pc] = Count(ORDERS, "completed")

\* What a count of the completed orders resolving now is logged as.
CompletedNow == LogsAfter(Count(ORDERS, "completed"), <<>>)

\* C30: directly after a successful initializePlayground or
\* resetPlayground, with no run in between, a run that counts the orders
\* with status 'completed' reports 4: the count that would resolve in the
\* state the handler ends in is 4, and every such run that was started
\* there and succeeds has the output 4.
C30_CompletedOrdersAreFour ==
    /\ [](Provisioned => CompletedNow = << <<"4">> >>)
    /\ [][\A s \in Slots :
            (CountsCompleted(calls[s]) /\ calls[s].fresh /\ calls'[s] = Idle
             /\ last'.ok)
                => output' = <<"4">>]_allVars

-----------------------------------------------------------------------------
(* Every accepted operation ends *)

\* The session driven through its buttons when every storage operation and
\* every execution that is awaited settles sooner or later.
\* The steps of StorageSettles, the rejections first.
AwaitedSettles ==
    \E s \in Slots :
        \/ ConnectRejects(s)
        \/ ClearRejects(s)
        \/ SeedInsertRejects(s)
        \/ RunAwaitRejects(s)
        \/ ConnectResolves(s)
        \/ ClearAllResolves(s)
        \/ ClearDeleteResolves(s)
        \/ SeedInsertResolves(s)
        \/ RunAwaitResolves(s)

SettlingSpec ==
    /\ PageInit /\ [][NextByClicks]_allVars
    /\ WF_allVars(AwaitedSettles /\ UNCHANGED restOfPage)

\* C31: when whatever is awaited settles, every accepted
\* initializePlayground, resetPlayground and runCode clears its busy flag:
\* runCode and resetPlayground end in Ready, initializePlayground ends in
\* Ready on success and in Uninitialized on failure.
C31_BusyFlagsAreCleared ==
    /\ isRunning ~> (FinishedOp("run") /\ Ready)
    /\ isResetting ~> (FinishedOp("reset") /\ Ready)
    /\ isInitializing ~> (/\ FinishedOp("init")
                          /\ IF last.ok THEN Ready ELSE Uninitialized)

\* initializePlayground has ended in its catch block and its flag is clear.
C31_Witness ==
    /\ Failed("init")
    /\ Uninitialized
    /\ output = OutInitFailed(ErrorText(last.err).s)

-----------------------------------------------------------------------------
(* A reset whose reseed fails *)

\* C32: when an insertMany of resetPlayground's insertSampleData fails,
\* the session is Ready again: isResetting is false, the handle and
\* isInitialized are as they were, the output is the failure message, and
\* both Run and Reset DB take the next click (their handlers do not return
\* at their guards).
C32_FailedResetReturnsToReady ==
    /\ [](Failed("reset") =>
            /\ Ready
            /\ output = OutResetFailed(ErrorText(last.err).s)
            /\ RunButtonRendered /\ ~RunButtonDisabled /\ ~RunRejects
            /\ ResetButtonRendered /\ ~ResetButtonDisabled /\ ~ResetRejects)
    /\ [][(last' # last /\ last'.ev = "finished" /\ last'.op = "reset")
            => (db' = db /\ isInitialized' = isInitialized)]_allVars

\* resetPlayground failed at the insertMany into users, the orders already
\* reseeded.
C32_Witness ==
    /\ Failed("reset")
    /\ Ready
    /\ HoldsSampleData(ORDERS)
    /\ tables[USERS] = {}

-----------------------------------------------------------------------------
(* Success reported after a failed clear *)

\* initializePlayground or resetPlayground has just reported success.
ReportsSuccess ==
    /\ last # NoEvent /\ last.ev = "finished" /\ last.op \in {"init", "reset"} /\ last.ok
    /\ output = IF last.op = "init" THEN OutInitReady ELSE OutResetDone

\* C33: whenever initializePlayground or resetPlayground reports success
\* in the output, every table holds exactly the sample dataset, also when
\* an all() or a delete of clearSampleData failed.
C33_SuccessMeansSampleData ==
    ReportsSuccess => AllHoldSampleData

-----------------------------------------------------------------------------
(* The handle and isInitialized *)

\* C34: in every rendered state isInitialized is true exactly when a
\* handle is stored, and no step clears the handle or isInitialized (or
\* replaces the handle) once the session is initialized.
C34_InitializedIffHandle ==
    /\ [](isInitialized <=> db # 0)
    /\ [][isInitialized => (isInitialized' /\ db' = db)]_allVars

\* The session is still initialized, with its handle, after a run that
\* ended in the catch block of runCode.
C34_Witness ==
    /\ isInitialized /\ db # 0
    /\ Failed("run")

-----------------------------------------------------------------------------
(* ThemeToggle before its deferred update *)

\* The latest theme step was a call of ThemeToggle's toggleTheme.
ByThemeToggle == ToggleDone /\ themeLast.via = "ThemeToggle"

\* C35: every call of ThemeToggle's toggleTheme flips the document dark
\* flag, also a call made before the requestAnimationFrame update of
\* isDark has run.
C35_ThemeToggleFlipsTheFlag ==
    ByThemeToggle => dark = ~themeLast.flagWas

-----------------------------------------------------------------------------
(* The unguarded storage write *)

\* The latest theme step was a toggle whose localStorage.setItem threw.
UnguardedWriteThrew ==
    /\ ToggleDone
    /\ themeLast.via \in {"ThemeToggle", "utils", "utilsNoEvent"}
    /\ ~themeLast.persisted

\* The consumer c has the flag in its isDark, or a class mutation record
\* or an animation frame callback that will give it the flag is queued.
ReachesFlag(c) ==
    \/ isDark[c] = dark /\ deferred[c] = NoValue /\ records[c] = 0
    \/ deferred[c] = ThemeName(dark) /\ records[c] = 0
    \/ records[c] > 0

\* C36: when setItem throws in ThemeToggle's toggleTheme or in utils/theme
\* toggleTheme, the document flag stays flipped, the preference is not
\* stored, no themeChange event is dispatched, the exception reaches the
\* caller, and every mounted consumer reaches the new flag through its
\* observer.
C36_ThrowingWriteLeavesFlagFlipped ==
    UnguardedWriteThrew =>
        /\ dark = ~themeLast.flagWas
        /\ stored = themeLast.storedWas
        /\ themeLast.events = <<>>
        /\ themeLast.threw
        /\ \A c \in Subscribers : ReachesFlag(c)

\* ---- The theme handlers under any event, unmounting, and utils/theme ----

\* The detail of a 'themeChange' event as handleThemeChange looks at it:
\* whether detail.isDark is a boolean, and its value when it is.
NoBooleanDetail == [boolean |-> FALSE, isDark |-> FALSE]
BooleanDetail(d) == [boolean |-> TRUE, isDark |-> d]
EventDetails == {NoBooleanDetail} \cup {BooleanDetail(d) : d \in BOOLEAN}

\* The orders in which the listeners of the consumers in S may have been
\* registered.
Orders(S) ==
    {o \in [1..Cardinality(S) -> S] : \A i, j \in 1..Cardinality(S) : o[i] = o[j] => i = j}

\* handleThemeChange taking detail.isDark although it is no boolean.
handleThemeChangeTrusting(c, e, readOk, st) ==
    [st EXCEPT !.isDark = [@ EXCEPT ![c] = e.isDark]]

\* handleThemeChange of a useTheme consumer, on the page as the listeners
\* before it left it: setIsDark(detail.isDark), or initializeTheme().
handleThemeChange(c, e, readOk, st) ==
    IF e.boolean
    THEN [st EXCEPT !.isDark = [@ EXCEPT ![c] = e.isDark]]
    ELSE LET isDarkTheme == ResolveTheme(safeGetStoredTheme(readOk), osDark) = "dark" IN
         [flag |-> isDarkTheme,
          isDark |-> [st.isDark EXCEPT ![c] = isDarkTheme],
          deferred |-> st.deferred,
          records |-> [x \in Consumers |->
                          IF isDarkTheme # st.flag /\ x \in Subscribers
                          THEN st.records[x] + 1 ELSE st.records[x]],
          calls |-> Append(st.calls, [by |-> c, readOk |-> readOk,
                                      flagWas |-> st.flag, result |-> isDarkTheme])]

\* The 'themeChange' listener of ThemeToggle and of the playground:
\* checkTheme(), which reads the class.
checkThemeOnEvent(c, st) ==
    IF c \in Deferring
    THEN [st EXCEPT !.deferred = [@ EXCEPT ![c] = ThemeName(st.flag)]]
    ELSE [st EXCEPT !.isDark = [@ EXCEPT ![c] = st.flag]]

\* dispatchEvent: the listeners run one after the other, in the order o.
RECURSIVE RunListeners(_, _, _, _)
RunListeners(o, e, reads, st) ==
    IF o = <<>> THEN st
    ELSE RunListeners(Tail(o), e, reads,
                      IF Head(o) \in Hooks
                      THEN handleThemeChange(Head(o), e, reads[Head(o)], st)
                      ELSE checkThemeOnEvent(Head(o), st))

\* With a boolean detail.isDark no listener reads the stored preference.
NoReads == {[h \in Hooks |-> TRUE]}

\* A script of the page dispatches a 'themeChange' event with any detail.
DispatchThemeChange ==
    /\ NoMicrotasks
    /\ \E e \in EventDetails, o \in Orders(Subscribers \cap Listening) :
       \E reads \in IF e.boolean THEN NoReads ELSE [Hooks -> BOOLEAN] :
        LET st == RunListeners(o, e, reads,
                               [flag |-> dark, isDark |-> isDark, deferred |-> deferred,
                                records |-> records, calls |-> <<>>]) IN
        /\ dark' = st.flag
        /\ isDark' = st.isDark
        /\ deferred' = st.deferred
        /\ records' = st.records
        /\ themeLast' = [op |-> "event", detail |-> e, flagWas |-> dark,
                         storedWas |-> stored, osWas |-> osDark, calls |-> st.calls]
    /\ setterCalls' = [h \in Hooks |-> IF Mounted(h) THEN 1 ELSE 0]
    /\ since' = SinceAfterOther
    /\ UNCHANGED <<stored, osDark, phase>>

\* The cleanup of useTheme's effect, when its component unmounts:
\* removeEventListener and observer.disconnect().
CleanupUseTheme(c) ==
    /\ NoMicrotasks
    /\ c \in Hooks
    /\ Mounted(c)
    /\ phase' = [phase EXCEPT ![c] = "cleaned"]
    /\ themeLast' = [op |-> "cleanup", by |-> c]
    /\ setterCalls' = NoCalls
    /\ UNCHANGED <<dark, stored, osDark, isDark, deferred, records>>
    /\ since' = SinceAfterOther

\* initializeTheme of utils/theme resolving from the OS preference alone.
InitializedTheme(window, readOk) ==
    IF window /\ readOk THEN ThemeName(osDark) ELSE NoValue

\* The theme utils/theme initializeTheme resolves, none when it returns
\* early (no window) or getItem throws.
utilsResolvedTheme(window, readOk) ==
    IF window /\ readOk THEN ResolveTheme(stored, osDark) ELSE NoValue

\* utils/theme initializeTheme; getItem and setItem are not guarded.
utilsInitializeTheme ==
    /\ NoMicrotasks
    /\ \E window \in BOOLEAN, readOk \in BOOLEAN, writeOk \in BOOLEAN :
        LET theme == utilsResolvedTheme(window, readOk) IN
        /\ IF theme = NoValue
           THEN UNCHANGED <<dark, stored, records>>
           ELSE /\ dark' = (theme = "dark")
                /\ records' = RecordsAfter(theme = "dark", Subscribers)
                /\ stored' = StoredAfter(theme, writeOk)
        /\ themeLast' = [op |-> "utilsInit", window |-> window,
                         read |-> window /\ readOk,
                         persisted |-> theme # NoValue /\ writeOk,
                         threw |-> window /\ (~readOk \/ ~writeOk),
                         flagWas |-> dark, storedWas |-> stored, osWas |-> osDark,
                         theme |-> theme]
    /\ setterCalls' = NoCalls
    /\ UNCHANGED <<osDark, phase, isDark, deferred>>
    /\ since' = SinceAfterOther

\* isDarkTheme of utils/theme.
isDarkTheme(window) == IF ~window THEN FALSE ELSE dark

\* The theme store of a page with the useTheme consumers and the ThemeToggle
\* button, where scripts dispatch 'themeChange' events with any detail and
\* toggle through utils/theme.
EventsNext ==
    \/ \E c \in Hooks : RenderUseTheme(c) /\ UNCHANGED playgrounds
    \/ \E c \in Hooks : MountUseTheme(c) /\ UNCHANGED playgrounds
    \/ MountViewer(Toggle) /\ UNCHANGED playgrounds
    \/ utilsToggleTheme /\ UNCHANGED playgrounds
    \/ DispatchThemeChange /\ UNCHANGED playgrounds
    \/ \E c \in Consumers : ObserverCallback(c) /\ UNCHANGED playgrounds
    \/ AnimationFrame /\ UNCHANGED playgrounds
    \/ OsPreferenceChanges /\ UNCHANGED playgrounds

ThemeEventsSpec == ThemePageInit /\ [][EventsNext]_allVars

\* The same page with every toggle, the useTheme consumers unmounting, and
\* utils/theme initializeTheme called by scripts.
LifecycleNext ==
    \/ \E c \in Hooks : RenderUseTheme(c) /\ UNCHANGED playgrounds
    \/ \E c \in Hooks : MountUseTheme(c) /\ UNCHANGED playgrounds
    \/ MountViewer(Toggle) /\ UNCHANGED playgrounds
    \/ \E c \in Hooks : useThemeToggleTheme(c) /\ UNCHANGED playgrounds
    \/ ThemeToggleToggleTheme /\ UNCHANGED playgrounds
    \/ utilsToggleTheme /\ UNCHANGED playgrounds
    \/ \E c \in Hooks : CleanupUseTheme(c) /\ UNCHANGED playgrounds
    \/ utilsInitializeTheme /\ UNCHANGED playgrounds
    \/ \E c \in Consumers : ObserverCallback(c) /\ UNCHANGED playgrounds
    \/ AnimationFrame /\ UNCHANGED playgrounds
    \/ OsPreferenceChanges /\ UNCHANGED playgrounds

ThemeLifecycleSpec == ThemePageInit /\ [][LifecycleNext]_allVars

\* The mounted useTheme consumers: those whose handleThemeChange is
\* registered.
ListeningHooks == Hooks \cap Subscribers

\* The theme a consumer resolves from the stored preference it can read,
\* else from the OS preference.
ResolvesDark(readOk) == IF readOk /\ stored # NoValue THEN stored = "dark" ELSE osDark

\* The class of the document after the i-th initializeTheme() of a dispatch.
FlagAfterCall(i) ==
    IF i < Len(themeLast'.calls) THEN themeLast'.calls[i + 1].flagWas ELSE dark'

\* The class changes made by the initializeTheme() calls of a dispatch.
ClassChangesOfCalls ==
    Cardinality({i \in 1..Len(themeLast'.calls) :
                    themeLast'.calls[i].flagWas # themeLast'.calls[i].result})

\* A step of dispatchEvent with a 'themeChange' event (the first conjunct
\* follows from the second).
ThemeChangeDispatched == themeLast'.op = "event" /\ DispatchThemeChange

\* C37: a themeChange event without a boolean detail.isDark makes every
\* mounted useTheme consumer resolve the theme from the stored preference
\* (when it can be read), else the OS preference, set the document dark flag
\* to that value, changing the class only when it differs, and set its
\* isDark to it; an event with a boolean detail.isDark sets the isDark of
\* every mounted useTheme consumer to it, reads no storage and leaves the
\* stored preference and the document flag as they were.
C37_EventWithoutDetailReinitializes ==
    [][ThemeChangeDispatched =>
        /\ stored' = stored
        /\ themeLast'.detail.boolean =>
              /\ \A c \in ListeningHooks : isDark'[c] = themeLast'.detail.isDark
              /\ themeLast'.calls = <<>>
              /\ dark' = dark
              /\ records' = records
        /\ ~themeLast'.detail.boolean =>
              /\ Len(themeLast'.calls) = Cardinality(ListeningHooks)
              /\ \A c \in ListeningHooks :
                    \E i \in 1..Len(themeLast'.calls) : themeLast'.calls[i].by = c
              /\ \A i \in 1..Len(themeLast'.calls) :
                    LET call == themeLast'.calls[i] IN
                    /\ call.flagWas = (IF i = 1 THEN dark ELSE themeLast'.calls[i - 1].result)
                    /\ call.result = ResolvesDark(call.readOk)
                    /\ FlagAfterCall(i) = call.result
                    /\ isDark'[call.by] = call.result
              /\ \A c \in Subscribers : records'[c] = records[c] + ClassChangesOfCalls
              /\ ListeningHooks = {} => dark' = dark
    ]_allVars

\* C37 witness: 'light' is stored and the document is dark; an event
\* without detail.isDark has made both useTheme consumers set the document
\* and their isDark to light, and the class change is queued for them.
C37_Witness ==
    /\ themeLast.op = "event"
    /\ ~themeLast.detail.boolean
    /\ themeLast.flagWas /\ themeLast.storedWas = "light" /\ themeLast.osWas
    /\ Len(themeLast.calls) = 2
    /\ \A i \in 1..2 : themeLast.calls[i].readOk
    /\ ~dark
    /\ \A c \in Hooks : ~isDark[c] /\ records[c] = 1

\* A step of one of the toggleTheme functions (the first conjunct follows
\* from the second).
ToggleStep ==
    /\ themeLast'.op = "toggle"
    /\ \/ \E h \in Hooks : useThemeToggleTheme(h)
       \/ ThemeToggleToggleTheme
       \/ utilsToggleTheme

CleanedUp(c) == phase[c] = "cleaned"

\* C38: a mounted useTheme consumer is reached on both paths by every
\* toggle: a dispatched themeChange event sets its isDark to detail.isDark
\* and every class change queues a record for its observer.  After its
\* cleanup it stays unregistered: no step queues a record for it or changes
\* its isDark, whoever toggles.
C38_CleanupUnregisters ==
    /\ [][ToggleStep =>
            \A c \in Hooks :
                /\ Mounted(c) =>
                      /\ themeLast'.events # <<>> =>
                            isDark'[c] = themeLast'.events[1].isDark
                      /\ records'[c] = records[c] + themeLast'.classChanges
                /\ CleanedUp(c) => isDark'[c] = isDark[c] /\ records'[c] = 0
       ]_allVars
    /\ [][\A c \in Hooks :
            CleanedUp(c) => (phase'[c] = "cleaned" /\ isDark'[c] = isDark[c] /\ records'[c] = 0)
       ]_allVars

\* C38 witness: one useTheme consumer has been cleaned up and the other has
\* then toggled: the class and the toggling consumer have the new value, the
\* cleaned-up one keeps the old one and nothing is queued for it.
C38_Witness ==
    /\ CleanedUp(HookA)
    /\ ToggleDone /\ themeLast.by = HookB /\ themeLast.classChanges = 1
    /\ themeLast.events # <<>>
    /\ isDark[HookB] = dark
    /\ isDark[HookA] # dark
    /\ records[HookA] = 0 /\ records[HookB] = 1

UtilsInitDone == themeLast.op = "utilsInit"

\* A call of utils/theme initializeTheme (the first conjunct follows from
\* the second).
UtilsInitStep == themeLast'.op = "utilsInit" /\ utilsInitializeTheme

\* The theme the last call of initializeTheme had to resolve.
ThemeToResolve ==
    IF themeLast.storedWas # NoValue THEN themeLast.storedWas
    ELSE IF themeLast.osWas THEN "dark" ELSE "light"

====
